---- MODULE Spec2Model ----
(***************************************************************************)
(* Model of token.go (vault-otp-ui): the concurrent harvest of OTP secrets *)
(* from a Vault key tree (getSecretsFromVault, scanKeyForSubKeys,          *)
(* fetchTokenFromKey), the record transformer (token.GenerateCode) and the *)
(* final sort (tokenList).                                                 *)
(*                                                                         *)
(* Go strings are sequences of byte values, so that strings.ToLower, the   *)
(* byte-wise "<" of Less, strings.HasSuffix, path.Join, strconv.Atoi and   *)
(* the '=' padding are computed, not assumed.  Bytes used below:           *)
(*   '/' 47   '=' 61   '+' 43   '-' 45   '0'..'9' 48..57                   *)
(*   'A'..'Z' 65..90   'a'..'z' 97..122                                    *)
(***************************************************************************)
EXTENDS Integers, Sequences, FiniteSets, Bags, TLC

(***************************************************************************)
(* Bounds of the model.                                                    *)
(***************************************************************************)
\* Capacity of scanPool, keyPoolChan and respChan (100 at token.go:139-143);
\* kept small so that senders really block on a full channel.
ChanCap == 1
\* At most this many List/Read calls of one run answer with something other
\* than the stored content (error, nil response, no data).
MaxFaults == 1

(***************************************************************************)
(* Strings                                                                 *)
(***************************************************************************)
\* strings.ToLower on ASCII bytes (token.go:65)
ToLower(s) == [i \in 1..Len(s) |-> IF s[i] >= 65 /\ s[i] <= 90 THEN s[i] + 32 ELSE s[i]]

\* strings.ToUpper on ASCII bytes (token.go:56)
ToUpper(s) == [i \in 1..Len(s) |-> IF s[i] >= 97 /\ s[i] <= 122 THEN s[i] - 32 ELSE s[i]]

\* Go's "<" on strings: byte-wise lexicographic order (token.go:65)
RECURSIVE StrLess(_, _)
StrLess(s, t) ==
    IF t = <<>> THEN FALSE
    ELSE IF s = <<>> THEN TRUE
    ELSE IF Head(s) # Head(t) THEN Head(s) < Head(t)
    ELSE StrLess(Tail(s), Tail(t))

\* strings.HasSuffix(sks, "/") (token.go:195)
HasSuffixSlash(s) == Len(s) > 0 /\ s[Len(s)] = 47

\* strings.Repeat("=", n) (token.go:32)
Repeat(n) == [i \in 1..n |-> 61]

\* removes the trailing separators of one path element, as path.Clean does
RECURSIVE TrimSlash(_)
TrimSlash(s) == IF HasSuffixSlash(s) THEN TrimSlash(SubSeq(s, 1, Len(s) - 1)) ELSE s

\* Variant of PathJoin: plain concatenation key + sks, which keeps the
\* trailing "/" of a directory entry.
PathJoinConcat(key, sks) == key \o sks

\* path.Join(key, sks) (token.go:197, 200): empty elements are ignored, the
\* rest is joined by "/" and cleaned, which drops the trailing "/" of both
\* the parent key and a directory entry.
PathJoin(key, sks) ==
    LET a == TrimSlash(key)
        b == TrimSlash(sks)
    IN  IF a = <<>> THEN b
        ELSE IF b = <<>> THEN a
        ELSE a \o <<47>> \o b

\* strconv.Atoi (token.go:238, 243): [val, ok]; ok = FALSE is the returned
\* error, and val is then 0.
RECURSIVE DigitsValue(_, _)
DigitsValue(s, acc) ==
    IF s = <<>> THEN acc ELSE DigitsValue(Tail(s), 10 * acc + (Head(s) - 48))

Atoi(s) ==
    LET signed == Len(s) > 0 /\ s[1] \in {43, 45}
        body   == IF signed THEN Tail(s) ELSE s
        ok     == Len(body) > 0 /\ \A i \in 1..Len(body) : body[i] >= 48 /\ body[i] <= 57
        mag    == IF ok THEN DigitsValue(body, 0) ELSE 0
    IN  [val |-> IF signed /\ s[1] = 45 THEN 0 - mag ELSE mag, ok |-> ok]

(***************************************************************************)
(* The record and its code (token, token.GenerateCode)                     *)
(***************************************************************************)
\* time.Now() as Unix seconds (token.go:50); one fixed instant, so that two
\* runs are compared at the same point in time.
Now == 45

\* cfg.Vault.SecretField (token.go:227)
SecretField == "secret"

\* The code generator's view of a secret: base32.StdEncoding accepts blocks
\* of 8 characters of A-Z and 2-7, with '=' padding only at the end and 0,
\* 2, 4, 5 or 7 data characters in the last block; the empty string decodes
\* to the empty key.
IsBase32Char(c) == (c >= 65 /\ c <= 90) \/ (c >= 50 /\ c <= 55)

DataLen(s) == Cardinality({i \in 1..Len(s) : \A j \in 1..i : s[j] # 61})

ValidBase32(s) ==
    LET n == DataLen(s)
    IN  /\ Len(s) % 8 = 0
        /\ \A i \in 1..n : IsBase32Char(s[i])
        /\ \A i \in (n + 1)..Len(s) : s[i] = 61
        /\ Len(s) - n < 8
        /\ (n % 8) \in {0, 2, 4, 5, 7}

\* totp.GenerateCodeCustom(secret, pointOfTime, opts) (token.go:56): the
\* code is a function of the decoded key, the time step floor(t / period)
\* and the digit count; it is kept symbolic as that triple, which stands for
\* a non-empty digit string.  An undecodable secret is the error, returned
\* with the empty string <<>>.  A period of 0 is replaced by 30 inside the
\* generator.
GenerateCodeCustom(secret, pointOfTime, opts) ==
    LET period == IF opts.Period = 0 THEN 30 ELSE opts.Period
    IN  IF ValidBase32(secret)
        THEN [code |-> <<secret, pointOfTime \div period, opts.Digits>>, err |-> FALSE]
        ELSE [code |-> <<>>, err |-> TRUE]

\* Variant of PadSecret without the test n != 0: a secret whose length is
\* already a multiple of 8 gets a full block of eight "=".
PadSecretFullBlock(secret) == secret \o Repeat(8 - (Len(secret) % 8))

\* the secret handed to the generator before upper-casing (token.go:29-33)
PadSecret(secret) ==
    LET n == Len(secret) % 8
    IN  IF n # 0 THEN secret \o Repeat(8 - n) ELSE secret

\* totp.ValidateOpts built at token.go:35-48 (Skew and Algorithm are fixed;
\* the periods of the model are not negative, so uint(t.Period) = t.Period)
CodeOpts(t) ==
    [Period |-> IF t.Period # 0 THEN t.Period ELSE 30,
     Digits |-> IF t.Digits # 0 THEN t.Digits ELSE 6]

\* the time the code is computed for (token.go:50-53)
PointOfTime(t, next) == IF next THEN Now + t.Period ELSE Now

\* token.GenerateCode (token.go:28-58): [tok, err]; t.Code is assigned also
\* when the generator fails.
GenerateCode(t, next) ==
    LET r == GenerateCodeCustom(ToUpper(PadSecret(t.Secret)), PointOfTime(t, next), CodeOpts(t))
    IN  [tok |-> [t EXCEPT !.Code = r.code], err |-> r.err]

(***************************************************************************)
(* Sorting the result (tokenList, sort.Sort)                               *)
(***************************************************************************)
\* Variant of Less that compares the names as they are, without
\* strings.ToLower.
LessCaseSensitive(a, b) == StrLess(a.Name, b.Name)

\* tokenList.Less (token.go:65)
Less(a, b) == StrLess(ToLower(a.Name), ToLower(b.Name))

\* tokenList.Swap (token.go:66)
Swap(s, i, j) == [s EXCEPT ![i] = s[j], ![j] = s[i]]

\* sort.Sort (token.go:173) on fewer than 12 elements is Go's insertionSort:
\*   for i := a + 1; i < b; i++ {
\*       for j := i; j > a && data.Less(j, j-1); j-- { data.Swap(j, j-1) } }
RECURSIVE SiftDown(_, _)
SiftDown(s, j) ==
    IF j > 1 /\ Less(s[j], s[j - 1]) THEN SiftDown(Swap(s, j, j - 1), j - 1) ELSE s

RECURSIVE InsertionSort(_, _)
InsertionSort(s, i) ==
    IF i > Len(s) THEN s ELSE InsertionSort(SiftDown(s, i), i + 1)

SortTokens(s) == InsertionSort(s, 2)

(***************************************************************************)
(* The record transformer (fetchTokenFromKey, token.go:220-258)            *)
(***************************************************************************)
HasField(data, f) == f \in DOMAIN data

\* The loop at token.go:225-248 ranges over a Go map, whose order is not
\* fixed: when both "name" and "account_name" are present the last one
\* visited wins, so either can be the final Name.
NameChoices(k, data) ==
    IF HasField(data, "name") \/ HasField(data, "account_name")
    THEN {data[f] : f \in {"name", "account_name"} \cap DOMAIN data}
    ELSE {k}

\* the token after the field loop; key is a ghost field recording the leaf
\* the record was read from (k at token.go:206), it is not part of token.
\* Every field value of the model's payloads is a string, so the type
\* assertions v.(string) succeed.
BuildToken(k, data, nm) ==
    [Code   |-> IF HasField(data, "code") THEN data["code"] ELSE <<>>,
     Icon   |-> IF HasField(data, "icon") THEN data["icon"] ELSE <<107, 101, 121>>,
     Name   |-> nm,
     Secret |-> IF HasField(data, SecretField) THEN data[SecretField] ELSE <<>>,
     Digits |-> IF HasField(data, "digits") THEN Atoi(data["digits"]).val ELSE 0,
     Period |-> IF HasField(data, "period") THEN Atoi(data["period"]).val ELSE 0,
     key    |-> k]

\* Variant of Transform without the two returns of token.go:250-258: the
\* record is delivered whatever GenerateCode gave.
TransformUnchecked(k, data, nm, next) ==
    [tok |-> GenerateCode(BuildToken(k, data, nm), next).tok, deliver |-> TRUE]

\* Variant of Transform in which the error of strconv.Atoi (token.go:237,
\* 242) is still looked at after the field loop: a record with an unparsable
\* digits or period field is not delivered.
TransformParseErrorLeaks(k, data, nm, next) ==
    LET g == GenerateCode(BuildToken(k, data, nm), next)
    IN  [tok |-> g.tok,
         deliver |-> /\ ~g.err /\ g.tok.Code # <<>>
                     /\ \A f \in {"digits", "period"} \cap DOMAIN data : Atoi(data[f]).ok]

\* token.go:250-258: [tok, deliver]; deliver is FALSE on the two early
\* returns (generation error, empty code).
Transform(k, data, nm, next) ==
    LET g == GenerateCode(BuildToken(k, data, nm), next)
    IN  [tok |-> g.tok, deliver |-> ~g.err /\ g.tok.Code # <<>>]

(***************************************************************************)
(* The remote store: a key tree and the answers of List and Read           *)
(***************************************************************************)
\* cfg.Vault.Prefix, here "r/*" (token.go:136)
Prefix == <<114, 47, 42>>

\* strings.TrimRight(key, "*") (token.go:144)
RECURSIVE TrimRightStar(_)
TrimRightStar(s) ==
    IF Len(s) > 0 /\ s[Len(s)] = 42 THEN TrimRightStar(SubSeq(s, 1, Len(s) - 1)) ELSE s

RootKey == TrimRightStar(Prefix)

\* "r/" -> ["a/", "b"], "r/a" -> ["c"]; r/a/c and r/b carry valid secrets
\* ("AAAAAAAA", "BBBBBBBB" with digits "6" and period "30").
TreePlain ==
    [list |-> (<<114, 47>> :> << <<97, 47>>, <<98>> >>) @@
              (<<114, 47, 97>> :> << <<99>> >>),
     data |-> (<<114, 47, 97, 47, 99>> :>
                  (SecretField :> <<65, 65, 65, 65, 65, 65, 65, 65>>)) @@
              (<<114, 47, 98>> :>
                  ((SecretField :> <<66, 66, 66, 66, 66, 66, 66, 66>>) @@
                   ("digits" :> <<54>>) @@ ("period" :> <<51, 48>>)))]

\* "r/" -> ["B", "a", "A"]: three leaves, two of them with names that are
\* equal ignoring case; secrets "abcde" (padded to 8), "AAAAAAAA", "BBBBBBBB".
TreeCase ==
    [list |-> (<<114, 47>> :> << <<66>>, <<97>>, <<65>> >>),
     data |-> (<<114, 47, 66>> :> (SecretField :> <<97, 98, 99, 100, 101>>)) @@
              (<<114, 47, 97>> :> (SecretField :> <<65, 65, 65, 65, 65, 65, 65, 65>>)) @@
              (<<114, 47, 65>> :> (SecretField :> <<66, 66, 66, 66, 66, 66, 66, 66>>))]

\* "r/" -> ["d/", "n", "e/"], "r/d" -> ["x"], "r/e" -> []: r/d/x has the
\* undecodable secret "1", r/n has an icon but neither a secret nor a code,
\* r/e is an empty directory.
TreeOdd ==
    [list |-> (<<114, 47>> :> << <<100, 47>>, <<110>>, <<101, 47>> >>) @@
              (<<114, 47, 100>> :> << <<120>> >>) @@
              (<<114, 47, 101>> :> << >>),
     data |-> (<<114, 47, 100, 47, 120>> :> (SecretField :> <<49>>)) @@
              (<<114, 47, 110>> :> ("icon" :> <<107>>))]

\* "r/" -> ["p", "q"]: two leaves with valid secrets; r/p has digits "x",
\* which strconv.Atoi rejects, and period "60"; r/q has digits "8" and
\* period "3o", which strconv.Atoi rejects.
TreeParse ==
    [list |-> (<<114, 47>> :> << <<112>>, <<113>> >>),
     data |-> (<<114, 47, 112>> :>
                  ((SecretField :> <<65, 65, 65, 65, 65, 65, 65, 65>>) @@
                   ("digits" :> <<120>>) @@ ("period" :> <<54, 48>>))) @@
              (<<114, 47, 113>> :>
                  ((SecretField :> <<66, 66, 66, 66, 66, 66, 66, 66>>) @@
                   ("digits" :> <<56>>) @@ ("period" :> <<51, 111>>)))]

Trees == {TreePlain, TreeCase, TreeOdd, TreeParse}

\* the keys List is called with when nothing fails, and the leaves
DirKeys(tree) == DOMAIN tree.list
LeafKeys(tree) == DOMAIN tree.data

\* What a call can answer instead of the stored content:
\*   List: an error (token.go:182), a nil response (token.go:187), a
\*         response without "keys" (token.go:192);
\*   Read: an error (token.go:210), a nil *api.Secret, which is what the
\*         client returns for a missing key, a Secret with nil Data
\*         (token.go:215).
ListFaults == {"err", "nil", "nokeys"}
ReadFaults == {"err", "nil", "nodata"}

Calls(tree) == ({"list"} \X DirKeys(tree)) \cup ({"read"} \X LeafKeys(tree))

\* the fault maps of a tree: at most MaxFaults calls fail, each in a way its
\* operation can fail
FaultMaps(tree) ==
    LET sets == {cs \in SUBSET Calls(tree) : Cardinality(cs) <= MaxFaults}
    IN  {g \in UNION {[cs -> ListFaults \cup ReadFaults] : cs \in sets} :
            \A c \in DOMAIN g :
                g[c] \in (IF c[1] = "list" THEN ListFaults ELSE ReadFaults)}

Stores == UNION {{[tree |-> t, fault |-> f] : f \in FaultMaps(t)} : t \in Trees}

\* client.Logical().List(key) (token.go:181)
ListResp(store, key) ==
    IF <<"list", key>> \in DOMAIN store.fault
    THEN [kind |-> store.fault[<<"list", key>>], keys |-> <<>>]
    ELSE IF key \in DirKeys(store.tree)
    THEN [kind |-> "ok", keys |-> store.tree.list[key]]
    ELSE [kind |-> "nil", keys |-> <<>>]

\* client.Logical().Read(k) (token.go:209)
ReadResp(store, k) ==
    IF <<"read", k>> \in DOMAIN store.fault
    THEN [kind |-> store.fault[<<"read", k>>], data |-> <<>>]
    ELSE IF k \in LeafKeys(store.tree)
    THEN [kind |-> "ok", data |-> store.tree.data[k]]
    ELSE [kind |-> "nil", data |-> <<>>]

\* Variant of FetchOutcomesOf without the return of token.go:210-213: after
\* a failed Read the worker goes on with an empty field map.
FetchOutcomesIgnoringError(st, k, nx) ==
    LET r == ReadResp(st, k)
        d == IF r.kind = "ok" THEN r.data ELSE <<>>
    IN  IF r.kind = "nil" THEN {[pc |-> "panic", tok |-> <<>>]}
        ELSE IF r.kind = "nodata" THEN {[pc |-> "exit", tok |-> <<>>]}
        ELSE {IF tr.deliver THEN [pc |-> "add", tok |-> tr.tok]
                            ELSE [pc |-> "exit", tok |-> <<>>] :
                 tr \in {Transform(k, d, nm, nx) : nm \in NameChoices(k, d)}}

\* token.go:209-258 as a function of the store, the key and the next flag:
\* what fetchTokenFromKey holds after Read, the field loop and the code:
\* "panic" for a nil response (data.Data at token.go:215 dereferences it),
\* "exit" for the early returns (read error, nil Data, generation error,
\* empty code), "add" with the record otherwise.
FetchOutcomesOf(st, k, nx) ==
    LET r == ReadResp(st, k)
    IN  IF r.kind = "nil" THEN {[pc |-> "panic", tok |-> <<>>]}
        ELSE IF r.kind # "ok" THEN {[pc |-> "exit", tok |-> <<>>]}
        ELSE {IF tr.deliver THEN [pc |-> "add", tok |-> tr.tok]
                            ELSE [pc |-> "exit", tok |-> <<>>] :
                 tr \in {Transform(k, r.data, nm, nx) : nm \in NameChoices(k, r.data)}}

(***************************************************************************)
(* State of one call of getSecretsFromVault                                *)
(***************************************************************************)
VARIABLES
    store,        \* the remote store this call talks to
    next,         \* the next argument
    leafOutcome,  \* per leaf key, what Read and the transformer give for it
    wg,           \* counter of the sync.WaitGroup
    scanPool,     \* buffered channels, oldest item first
    keyPoolChan,
    respChan,
    closed,       \* the three channels have been closed
    resp,         \* the result slice
    workers,      \* bag of running scan and fetch goroutines
    pcMain,       \* where the caller is
    pcDisp,       \* where the dispatcher goroutine is
    panicked,     \* a goroutine panicked: the process is gone
    retErr,       \* the error returned to the caller
    \* history of the run, read only by the properties
    spawned,      \* bag of <<kind, key>>: goroutines started by the dispatcher
    enq,          \* bag of <<channel, key>>: items sent by workers
    exits,        \* bag of <<kind, key>>: deferred wg.Done calls of workers
    nAdd,         \* wg.Add(1) calls after the first
    nDone,        \* wg.Done calls
    arrived,      \* resp as the dispatcher built it, before the sort
    \* the call before this one, for comparing two runs
    run,
    firstResult

vars == <<store, next, leafOutcome, wg, scanPool, keyPoolChan, respChan, closed, resp,
          workers, pcMain, pcDisp, panicked, retErr, spawned, enq, exits, nAdd,
          nDone, arrived, run, firstResult>>

hist == <<spawned, enq, exits, nAdd, nDone, arrived>>

One(x) == SetToBag({x})

\* a goroutine as the dispatcher starts it (token.go:156, 158)
NewWorker(kind, key) ==
    [kind |-> kind, key |-> key, pc |-> IF kind = "scan" THEN "list" ELSE "read",
     todo |-> <<>>, tok |-> <<>>]

\* token.go:136-150: the state in which the dispatcher is started: empty
\* result, empty channels but for the root key in scanPool, counter 1.
Setup ==
    /\ wg = 1
    /\ scanPool = <<RootKey>>
    /\ keyPoolChan = <<>>
    /\ respChan = <<>>
    /\ closed = FALSE
    /\ resp = <<>>
    /\ workers = EmptyBag
    /\ pcMain = "go"
    /\ pcDisp = "idle"
    /\ panicked = FALSE
    /\ retErr = "none"
    /\ spawned = EmptyBag
    /\ enq = EmptyBag
    /\ exits = EmptyBag
    /\ nAdd = 0
    /\ nDone = 0
    /\ arrived = <<>>

Init ==
    /\ store \in Stores
    /\ next \in BOOLEAN
    /\ leafOutcome = [k \in LeafKeys(store.tree) |-> FetchOutcomesOf(store, k, next)]
    /\ run = 1
    /\ firstResult = <<>>
    /\ Setup

(***************************************************************************)
(* sync.WaitGroup                                                          *)
(***************************************************************************)
\* wg.Add(1) (token.go:196, 199, 260)
WgAdd ==
    /\ wg' = wg + 1
    /\ nAdd' = nAdd + 1

\* wg.Done() (token.go:161, 179, 207): a negative counter panics; reaching
\* zero releases the caller if it is blocked in wg.Wait.
WgDone ==
    /\ wg' = wg - 1
    /\ nDone' = nDone + 1
    /\ panicked' = (wg - 1 < 0)
    /\ pcMain' = IF pcMain = "wait" /\ wg - 1 = 0 THEN "sort" ELSE pcMain

Update(w, w2) == workers' = (workers (-) One(w)) (+) One(w2)

(***************************************************************************)
(* scanKeyForSubKeys (token.go:178-204)                                    *)
(***************************************************************************)
\* Variant of ScanList without the check of token.go:187-190: the nil
\* response is dereferenced at token.go:192, which panics.
ScanListNoNilCheck(w) ==
    /\ ~panicked
    /\ w.kind = "scan" /\ w.pc = "list"
    /\ LET r == ListResp(store, w.key)
       IN  /\ panicked' = (r.kind = "nil")
           /\ IF r.kind = "nil" THEN UNCHANGED workers
              ELSE IF r.kind = "ok" /\ r.keys # <<>>
              THEN Update(w, [w EXCEPT !.pc = "add", !.todo = r.keys])
              ELSE Update(w, [w EXCEPT !.pc = "exit"])
    /\ UNCHANGED <<store, next, leafOutcome, wg, scanPool, keyPoolChan, respChan,
                   closed, resp, pcMain, pcDisp, retErr, hist, run, firstResult>>

\* token.go:181-193: List; an error, a nil response, a response without
\* keys or with no key leaves only the deferred wg.Done.
ScanList(w) ==
    /\ ~panicked
    /\ w.kind = "scan" /\ w.pc = "list"
    /\ LET r == ListResp(store, w.key)
       IN  IF r.kind = "ok" /\ r.keys # <<>>
           THEN Update(w, [w EXCEPT !.pc = "add", !.todo = r.keys])
           ELSE Update(w, [w EXCEPT !.pc = "exit"])
    /\ UNCHANGED <<store, next, leafOutcome, wg, scanPool, keyPoolChan, respChan, closed, resp,
                   pcMain, pcDisp, panicked, retErr, hist, run, firstResult>>

\* Variant of ScanAdd in which the child's key is sent without being counted
\* (the wg.Add(1) of token.go:196, 199 left out).
ScanAddUncounted(w) ==
    /\ ~panicked
    /\ w.kind = "scan" /\ w.pc = "add"
    /\ Update(w, [w EXCEPT !.pc = "send"])
    /\ UNCHANGED <<store, next, leafOutcome, wg, scanPool, keyPoolChan, respChan, closed, resp,
                   pcMain, pcDisp, panicked, retErr, hist, run, firstResult>>

\* token.go:196, 199: wg.Add(1) for the next child
ScanAdd(w) ==
    /\ ~panicked
    /\ w.kind = "scan" /\ w.pc = "add"
    /\ WgAdd
    /\ Update(w, [w EXCEPT !.pc = "send"])
    /\ UNCHANGED <<store, next, leafOutcome, scanPool, keyPoolChan, respChan, closed, resp,
                   pcMain, pcDisp, panicked, retErr, spawned, enq, exits, nDone,
                   arrived, run, firstResult>>

\* token.go:195-201: the send of the child's key, to scanPool for a name with
\* a trailing "/", to keyPoolChan otherwise; it blocks while the channel is
\* full and panics on a closed channel.
ScanSend(w) ==
    /\ ~panicked
    /\ w.kind = "scan" /\ w.pc = "send"
    /\ LET sks  == Head(w.todo)
           item == PathJoin(w.key, sks)
           dir  == HasSuffixSlash(sks)
           rest == Tail(w.todo)
       IN  IF closed
           THEN /\ panicked' = TRUE
                /\ UNCHANGED <<scanPool, keyPoolChan, workers, enq>>
           ELSE /\ Len(IF dir THEN scanPool ELSE keyPoolChan) < ChanCap
                /\ scanPool' = IF dir THEN Append(scanPool, item) ELSE scanPool
                /\ keyPoolChan' = IF dir THEN keyPoolChan ELSE Append(keyPoolChan, item)
                /\ enq' = enq (+) One(<<IF dir THEN "scan" ELSE "fetch", item>>)
                /\ Update(w, [w EXCEPT !.todo = rest,
                                       !.pc = IF rest = <<>> THEN "exit" ELSE "add"])
                /\ UNCHANGED panicked
    /\ UNCHANGED <<store, next, leafOutcome, wg, respChan, closed, resp, pcMain, pcDisp, retErr,
                   spawned, exits, nAdd, nDone, arrived, run, firstResult>>

\* Variant of ScanExit in which a return path calls wg.Done() itself before
\* the deferred wg.Done runs: two decrements for one goroutine.
ScanExitDoneTwice(w) ==
    /\ ~panicked
    /\ w.kind = "scan" /\ w.pc = "exit"
    /\ wg' = wg - 2
    /\ nDone' = nDone + 2
    /\ panicked' = (wg - 2 < 0)
    /\ pcMain' = IF pcMain = "wait" /\ wg - 2 = 0 THEN "sort" ELSE pcMain
    /\ workers' = workers (-) One(w)
    /\ exits' = exits (+) One(<<"scan", w.key>>)
    /\ UNCHANGED <<store, next, leafOutcome, scanPool, keyPoolChan, respChan, closed, resp,
                   pcDisp, retErr, spawned, enq, nAdd, arrived, run, firstResult>>

\* token.go:179: the deferred wg.Done, the goroutine's last step
ScanExit(w) ==
    /\ ~panicked
    /\ w.kind = "scan" /\ w.pc = "exit"
    /\ WgDone
    /\ workers' = workers (-) One(w)
    /\ exits' = exits (+) One(<<"scan", w.key>>)
    /\ UNCHANGED <<store, next, leafOutcome, scanPool, keyPoolChan, respChan, closed, resp,
                   pcDisp, retErr, spawned, enq, nAdd, arrived, run, firstResult>>

(***************************************************************************)
(* fetchTokenFromKey (token.go:206-262)                                    *)
(***************************************************************************)
\* what the fetch of key k comes to in this call; leafOutcome holds it for
\* the leaves of the store
FetchOutcomes(k) ==
    IF k \in DOMAIN leafOutcome THEN leafOutcome[k] ELSE FetchOutcomesOf(store, k, next)

\* token.go:209-258: one step from the Read to the wg.Add(1) or the return
FetchRead(w) ==
    /\ ~panicked
    /\ w.kind = "fetch" /\ w.pc = "read"
    /\ \E o \in FetchOutcomes(w.key) :
          /\ panicked' = (o.pc = "panic")
          /\ workers' = IF o.pc = "panic" THEN workers
                        ELSE (workers (-) One(w)) (+) One([w EXCEPT !.pc = o.pc, !.tok = o.tok])
    /\ UNCHANGED <<store, next, leafOutcome, wg, scanPool, keyPoolChan, respChan, closed, resp,
                   pcMain, pcDisp, retErr, hist, run, firstResult>>

\* Variant of FetchAdd in which the record is sent without being counted
\* (the wg.Add(1) of token.go:260 left out).
FetchAddUncounted(w) ==
    /\ ~panicked
    /\ w.kind = "fetch" /\ w.pc = "add"
    /\ Update(w, [w EXCEPT !.pc = "send"])
    /\ UNCHANGED <<store, next, leafOutcome, wg, scanPool, keyPoolChan, respChan, closed, resp,
                   pcMain, pcDisp, panicked, retErr, hist, run, firstResult>>

\* token.go:260: wg.Add(1) for the record
FetchAdd(w) ==
    /\ ~panicked
    /\ w.kind = "fetch" /\ w.pc = "add"
    /\ WgAdd
    /\ Update(w, [w EXCEPT !.pc = "send"])
    /\ UNCHANGED <<store, next, leafOutcome, scanPool, keyPoolChan, respChan, closed, resp,
                   pcMain, pcDisp, panicked, retErr, spawned, enq, exits, nDone,
                   arrived, run, firstResult>>

\* token.go:261: respChan <- tok
FetchSend(w) ==
    /\ ~panicked
    /\ w.kind = "fetch" /\ w.pc = "send"
    /\ IF closed
       THEN /\ panicked' = TRUE
            /\ UNCHANGED <<respChan, workers, enq>>
       ELSE /\ Len(respChan) < ChanCap
            /\ respChan' = Append(respChan, w.tok)
            /\ enq' = enq (+) One(<<"resp", w.key>>)
            /\ Update(w, [w EXCEPT !.pc = "exit"])
            /\ UNCHANGED panicked
    /\ UNCHANGED <<store, next, leafOutcome, wg, scanPool, keyPoolChan, closed, resp, pcMain,
                   pcDisp, retErr, spawned, exits, nAdd, nDone, arrived, run,
                   firstResult>>

\* token.go:207: the deferred wg.Done, the goroutine's last step
FetchExit(w) ==
    /\ ~panicked
    /\ w.kind = "fetch" /\ w.pc = "exit"
    /\ WgDone
    /\ workers' = workers (-) One(w)
    /\ exits' = exits (+) One(<<"fetch", w.key>>)
    /\ UNCHANGED <<store, next, leafOutcome, scanPool, keyPoolChan, respChan, closed, resp,
                   pcDisp, retErr, spawned, enq, nAdd, arrived, run, firstResult>>

(***************************************************************************)
(* The dispatcher goroutine (token.go:152-169)                             *)
(***************************************************************************)
\* token.go:155-156: a key from scanPool starts a scan goroutine
DispScan ==
    /\ ~panicked
    /\ pcDisp = "run" /\ scanPool # <<>>
    /\ scanPool' = Tail(scanPool)
    /\ workers' = workers (+) One(NewWorker("scan", Head(scanPool)))
    /\ spawned' = spawned (+) One(<<"scan", Head(scanPool)>>)
    /\ UNCHANGED <<store, next, leafOutcome, wg, keyPoolChan, respChan, closed, resp, pcMain,
                   pcDisp, panicked, retErr, enq, exits, nAdd, nDone, arrived, run,
                   firstResult>>

\* token.go:157-158: a key from keyPoolChan starts a fetch goroutine
DispFetch ==
    /\ ~panicked
    /\ pcDisp = "run" /\ keyPoolChan # <<>>
    /\ keyPoolChan' = Tail(keyPoolChan)
    /\ workers' = workers (+) One(NewWorker("fetch", Head(keyPoolChan)))
    /\ spawned' = spawned (+) One(<<"fetch", Head(keyPoolChan)>>)
    /\ UNCHANGED <<store, next, leafOutcome, wg, scanPool, respChan, closed, resp, pcMain,
                   pcDisp, panicked, retErr, enq, exits, nAdd, nDone, arrived, run,
                   firstResult>>

\* token.go:159-160: a record from respChan is appended to resp
DispResp ==
    /\ ~panicked
    /\ pcDisp = "run" /\ respChan # <<>>
    /\ respChan' = Tail(respChan)
    /\ resp' = Append(resp, Head(respChan))
    /\ arrived' = Append(resp, Head(respChan))
    /\ pcDisp' = "done"
    /\ UNCHANGED <<store, next, leafOutcome, wg, scanPool, keyPoolChan, closed, workers, pcMain,
                   panicked, retErr, spawned, enq, exits, nAdd, nDone, run,
                   firstResult>>

\* Variant of DispDone without the wg.Done() of token.go:161: the dispatcher
\* goes back to the select after the append.
DispDoneSkipped ==
    /\ ~panicked
    /\ pcDisp = "done"
    /\ pcDisp' = "run"
    /\ UNCHANGED <<store, next, leafOutcome, wg, scanPool, keyPoolChan, respChan, closed,
                   resp, workers, pcMain, panicked, retErr, hist, run, firstResult>>

\* token.go:161: wg.Done() after the append
DispDone ==
    /\ ~panicked
    /\ pcDisp = "done"
    /\ WgDone
    /\ pcDisp' = "run"
    /\ UNCHANGED <<store, next, leafOutcome, scanPool, keyPoolChan, respChan, closed, resp,
                   workers, retErr, spawned, enq, exits, nAdd, arrived, run,
                   firstResult>>

\* token.go:147 and 162: done is unbuffered, so the caller's deferred send
\* and the dispatcher's receive are one step; the caller then returns
\* (resp, nil) (token.go:175).
DispStop ==
    /\ ~panicked
    /\ pcDisp = "run" /\ pcMain = "defer"
    /\ pcDisp' = "close"
    /\ pcMain' = "returned"
    /\ retErr' = "nil"
    /\ UNCHANGED <<store, next, leafOutcome, wg, scanPool, keyPoolChan, respChan, closed, resp,
                   workers, panicked, hist, run, firstResult>>

\* Variant of DispClose without the close calls of token.go:163-165: the
\* goroutine ends and leaves the channels open.
DispCloseSkipped ==
    /\ ~panicked
    /\ pcDisp = "close"
    /\ pcDisp' = "exited"
    /\ UNCHANGED <<store, next, leafOutcome, wg, scanPool, keyPoolChan, respChan, closed, resp,
                   workers, pcMain, panicked, retErr, hist, run, firstResult>>

\* token.go:163-166: the three channels are closed and the goroutine ends
DispClose ==
    /\ ~panicked
    /\ pcDisp = "close"
    /\ closed' = TRUE
    /\ pcDisp' = "exited"
    /\ UNCHANGED <<store, next, leafOutcome, wg, scanPool, keyPoolChan, respChan, resp, workers,
                   pcMain, panicked, retErr, hist, run, firstResult>>

(***************************************************************************)
(* The caller, getSecretsFromVault (token.go:152-175)                      *)
(***************************************************************************)
\* token.go:152: the go statement
MainGo ==
    /\ ~panicked
    /\ pcMain = "go"
    /\ pcMain' = "callwait"
    /\ pcDisp' = "run"
    /\ UNCHANGED <<store, next, leafOutcome, wg, scanPool, keyPoolChan, respChan, closed, resp,
                   workers, panicked, retErr, hist, run, firstResult>>

\* Variant of MainWait without the wg.Wait() of token.go:171: the caller
\* goes on to the sort at once.
MainWaitNoBlock ==
    /\ ~panicked
    /\ pcMain = "callwait"
    /\ pcMain' = "sort"
    /\ UNCHANGED <<store, next, leafOutcome, wg, scanPool, keyPoolChan, respChan, closed, resp,
                   workers, pcDisp, panicked, retErr, hist, run, firstResult>>

\* token.go:171: wg.Wait() returns at once on a zero counter and blocks
\* otherwise, until a wg.Done brings the counter to zero
MainWait ==
    /\ ~panicked
    /\ pcMain = "callwait"
    /\ pcMain' = IF wg = 0 THEN "sort" ELSE "wait"
    /\ UNCHANGED <<store, next, leafOutcome, wg, scanPool, keyPoolChan, respChan, closed, resp,
                   workers, pcDisp, panicked, retErr, hist, run, firstResult>>

\* token.go:173: sort.Sort(tokenList(resp)), in place
MainSort ==
    /\ ~panicked
    /\ pcMain = "sort"
    /\ resp' = SortTokens(resp)
    /\ pcMain' = "defer"
    /\ UNCHANGED <<store, next, leafOutcome, wg, scanPool, keyPoolChan, respChan, closed,
                   workers, pcDisp, panicked, retErr, hist, run, firstResult>>

(***************************************************************************)
(* Specifications                                                          *)
(***************************************************************************)
\* A panic ends the process: every step above is a step of a process that
\* has not panicked.
Next ==
    \/ \E w \in BagToSet(workers) : ScanList(w)
    \/ \E w \in BagToSet(workers) : ScanAdd(w)
    \/ \E w \in BagToSet(workers) : ScanSend(w)
    \/ \E w \in BagToSet(workers) : ScanExit(w)
    \/ \E w \in BagToSet(workers) : FetchRead(w)
    \/ \E w \in BagToSet(workers) : FetchAdd(w)
    \/ \E w \in BagToSet(workers) : FetchSend(w)
    \/ \E w \in BagToSet(workers) : FetchExit(w)
    \/ DispScan
    \/ DispFetch
    \/ DispResp
    \/ DispDone
    \/ DispStop
    \/ DispClose
    \/ MainGo
    \/ MainWait
    \/ MainSort

Spec == Init /\ [][Next]_vars

\* every goroutine that can take a step eventually takes one
FairSpec == Spec /\ WF_vars(Next)

\* A second call of getSecretsFromVault against the same store, with the
\* same argument, after the first has returned and its dispatcher has ended;
\* the first call's result is kept for comparison.
Rerun ==
    /\ ~panicked
    /\ pcMain = "returned" /\ pcDisp = "exited"
    /\ run = 1
    /\ run' = 2
    /\ firstResult' = resp
    /\ wg' = 1
    /\ scanPool' = <<RootKey>>
    /\ keyPoolChan' = <<>>
    /\ respChan' = <<>>
    /\ closed' = FALSE
    /\ resp' = <<>>
    /\ workers' = EmptyBag
    /\ pcMain' = "go"
    /\ pcDisp' = "idle"
    /\ retErr' = "none"
    /\ spawned' = EmptyBag
    /\ enq' = EmptyBag
    /\ exits' = EmptyBag
    /\ nAdd' = 0
    /\ nDone' = 0
    /\ arrived' = <<>>
    /\ UNCHANGED <<store, next, leafOutcome, panicked>>

NextRerun == Next \/ Rerun

SpecRerun == Init /\ [][NextRerun]_vars

(***************************************************************************)
(* Properties                                                              *)
(***************************************************************************)
Returned == pcMain = "returned"

NoFault == DOMAIN store.fault = {}

\* the leaf's payload passes code generation with a non-empty code,
\* whatever name the field loop ends with
YieldsCode(k) ==
    \A nm \in NameChoices(k, store.tree.data[k]) :
        Transform(k, store.tree.data[k], nm, next).deliver

\* number of records of a list that were read from leaf k
RecordsOf(list, k) == Cardinality({i \in 1..Len(list) : list[i].key = k})

\* C1: when every List and Read succeeds and every leaf yields a non-empty
\* code, the returned list holds exactly one record per leaf key, whatever
\* the interleaving of dispatcher and workers: none missing, none twice.
C1_OneRecordPerLeaf ==
    (Returned /\ NoFault /\ \A k \in LeafKeys(store.tree) : YieldsCode(k))
        => /\ Len(resp) = Cardinality(LeafKeys(store.tree))
           /\ \A k \in LeafKeys(store.tree) : RecordsOf(resp, k) = 1

\* a call over a tree of three leaves under the root has returned them all
C1_Witness ==
    /\ Returned /\ NoFault
    /\ \A k \in LeafKeys(store.tree) : YieldsCode(k)
    /\ Len(resp) = 3

\* key k lies below directory key d
IsUnder(k, d) ==
    LET dd == IF d[Len(d)] = 47 THEN d ELSE d \o <<47>>
    IN  Len(k) > Len(dd) /\ SubSeq(k, 1, Len(dd)) = dd

\* every directory above k was listed with success
Listed(k) ==
    \A d \in DirKeys(store.tree) : IsUnder(k, d) => ListResp(store, d).kind = "ok"

ListedDirs == {d \in DirKeys(store.tree) : Listed(d)}
ListedLeaves == {k \in LeafKeys(store.tree) : Listed(k)}

SpawnedOf(kind) == {x \in BagToSet(spawned) : x[1] = kind}

\* C2 as stated: a call that has returned has spawned exactly N fetch workers
\* and M + 1 scan workers, for the N leaf keys and M directory keys of the
\* namespace, each for a distinct key.
C2_SpawnsPerNamespaceKey ==
    Returned =>
        /\ \A x \in BagToSet(spawned) : CopiesIn(x, spawned) = 1
        /\ Cardinality(SpawnedOf("fetch")) = Cardinality(LeafKeys(store.tree))
        /\ Cardinality(SpawnedOf("scan")) = Cardinality(DirKeys(store.tree) \ {RootKey}) + 1

\* C2 amended: no key is ever given to two workers of a kind and only keys
\* below successfully listed directories are given to a worker; a call that
\* has returned has spawned exactly one scan worker for the root and for each
\* directory key, and one fetch worker for each leaf key, that lies below
\* successfully listed directories only.
C2_SpawnsPerListedKey ==
    /\ \A x \in BagToSet(spawned) : CopiesIn(x, spawned) = 1
    /\ BagToSet(spawned) \subseteq
          (({"scan"} \X ListedDirs) \cup ({"fetch"} \X ListedLeaves))
    /\ Returned =>
          BagToSet(spawned) = (({"scan"} \X ListedDirs) \cup ({"fetch"} \X ListedLeaves))

\* a call has returned although the List of a directory below the root
\* failed, having spawned fewer workers than the namespace has keys
C2_Witness ==
    /\ Returned
    /\ \E d \in DirKeys(store.tree) \ {RootKey} : ListResp(store, d).kind = "err"
    /\ Cardinality(SpawnedOf("scan")) = Cardinality(ListedDirs)
    /\ Cardinality(SpawnedOf("fetch")) < Cardinality(LeafKeys(store.tree))
    /\ Cardinality(SpawnedOf("fetch")) > 0

\* nothing of the traversal is left: no scan or fetch goroutine runs (so none
\* is blocked on a send), the three channels are empty and the dispatcher
\* owes no wg.Done for a record it has appended
Drained ==
    /\ workers = EmptyBag
    /\ scanPool = <<>> /\ keyPoolChan = <<>> /\ respChan = <<>>
    /\ pcDisp # "done"

C4_EventuallyReturns == <>Returned

\* what the code does guarantee under fair scheduling: the call returns
\* unless a goroutine panicked; no goroutine stays blocked on a full channel
C4_ReturnsOrPanics == <>(Returned \/ panicked)

\* the caller is past sort.Sort
Sorted == pcMain \in {"defer", "returned"}

\* lower(a) <= lower(b) in Go's string order
LowerLeq(a, b) == ~StrLess(ToLower(b), ToLower(a))

CountIn(list, x) == Cardinality({i \in 1..Len(list) : list[i] = x})

IsPermutation(a, b) ==
    /\ Len(a) = Len(b)
    /\ \A i \in 1..Len(a) : CountIn(a, a[i]) = CountIn(b, a[i])

\* C5: the list the caller holds after the sort, and returns, is in
\* ascending order of the lower-cased names, names that differ only by case
\* included, and is a permutation of the records the dispatcher collected.
C5_SortedByLowerName ==
    Sorted =>
        /\ \A i \in 1..(Len(resp) - 1) : LowerLeq(resp[i].Name, resp[i + 1].Name)
        /\ IsPermutation(resp, arrived)

\* a returned list of three records that the sort had to reorder and in
\* which two neighbours have names that differ only by case
C5_Witness ==
    /\ Returned
    /\ Len(resp) = 3
    /\ resp # arrived
    /\ \E i \in 1..2 :
          /\ resp[i].Name # resp[i + 1].Name
          /\ ToLower(resp[i].Name) = ToLower(resp[i + 1].Name)

\* the records of a list as the caller sees them (the fields of token)
Tokens(list) ==
    [i \in 1..Len(list) |->
        [Code |-> list[i].Code, Icon |-> list[i].Icon, Name |-> list[i].Name,
         Secret |-> list[i].Secret, Digits |-> list[i].Digits,
         Period |-> list[i].Period]]

\* C6: a second call against the unchanged store, at the same point in time,
\* ends with the same sequence of records as the first, whatever the
\* interleavings of the two calls; records whose names are equal ignoring
\* case come in the same order both times.
C6_SameResultOnRerun ==
    (run = 2 /\ Sorted) => Tokens(resp) = Tokens(firstResult)

\* the worker of that kind for key k was started and has ended
Gone(kind, k) ==
    /\ CopiesIn(<<kind, k>>, spawned) >= 1
    /\ \A w \in BagToSet(workers) : ~(w.kind = kind /\ w.key = k)

\* C7: when the Read of exactly one leaf k fails with an error and every
\* other leaf is valid, the fetch worker of k sends nothing on respChan and
\* runs its wg.Done exactly once, and the call returns a nil error and
\* exactly one record for each of the other N - 1 leaves.
C7_OneReadErrorDropsOneRecord ==
    \A k \in LeafKeys(store.tree) :
        (/\ store.fault = (<<"read", k>> :> "err")
         /\ \A j \in LeafKeys(store.tree) \ {k} : YieldsCode(j))
        => /\ CopiesIn(<<"resp", k>>, enq) = 0
           /\ CopiesIn(<<"fetch", k>>, exits) <= 1
           /\ Gone("fetch", k) => CopiesIn(<<"fetch", k>>, exits) = 1
           /\ Returned =>
                 /\ retErr = "nil"
                 /\ Gone("fetch", k)
                 /\ Len(resp) = Cardinality(LeafKeys(store.tree)) - 1
                 /\ RecordsOf(resp, k) = 0
                 /\ \A j \in LeafKeys(store.tree) \ {k} : RecordsOf(resp, j) = 1

\* a call over three leaves, one of whose Reads failed, has returned two
\* records
C7_Witness ==
    /\ Returned
    /\ Cardinality(LeafKeys(store.tree)) = 3
    /\ \E k \in LeafKeys(store.tree) :
          /\ store.fault = (<<"read", k>> :> "err")
          /\ CopiesIn(<<"fetch", k>>, exits) = 1
    /\ Len(resp) = 2

\* C8: when the Read of a leaf returns no error but no payload (a nil
\* response, or a response with nil Data), the fetch worker does not crash,
\* sends nothing on respChan and runs its wg.Done exactly once.
C8_NoPayloadExitsWithNothing ==
    \A k \in LeafKeys(store.tree) :
        ReadResp(store, k).kind \in {"nil", "nodata"}
        => /\ ~panicked
           /\ CopiesIn(<<"resp", k>>, enq) = 0
           /\ CopiesIn(<<"fetch", k>>, exits) <= 1
           /\ Gone("fetch", k) => CopiesIn(<<"fetch", k>>, exits) = 1

\* the part of C8 the code keeps: a response with nil Data (token.go:215)
C8_NilDataExitsWithNothing ==
    \A k \in LeafKeys(store.tree) :
        store.fault = (<<"read", k>> :> "nodata")
        => /\ ~panicked
           /\ CopiesIn(<<"resp", k>>, enq) = 0
           /\ CopiesIn(<<"fetch", k>>, exits) <= 1
           /\ Gone("fetch", k) => CopiesIn(<<"fetch", k>>, exits) = 1

\* the leaves that do not lie below directory d
LeavesOutside(d) == {j \in LeafKeys(store.tree) : ~IsUnder(j, d)}

\* C9: when the List of exactly one directory d answers with an error or a
\* nil response and every leaf outside d is valid, the scan worker of d
\* sends no work item (no key below d is ever sent), runs its wg.Done exactly
\* once, nothing panics, and the call returns a nil error and exactly one
\* record for each leaf outside d.
C9_ListFailureDropsSubtree ==
    \A d \in DirKeys(store.tree) :
        (/\ \E f \in {"err", "nil"} : store.fault = (<<"list", d>> :> f)
         /\ \A j \in LeavesOutside(d) : YieldsCode(j))
        => /\ ~panicked
           /\ \A x \in BagToSet(enq) : ~IsUnder(x[2], d)
           /\ CopiesIn(<<"scan", d>>, exits) <= 1
           /\ Gone("scan", d) => CopiesIn(<<"scan", d>>, exits) = 1
           /\ Returned =>
                 /\ retErr = "nil"
                 /\ Gone("scan", d)
                 /\ Len(resp) = Cardinality(LeavesOutside(d))
                 /\ \A j \in LeavesOutside(d) : RecordsOf(resp, j) = 1

\* a call has returned the one record outside a directory that holds a leaf
\* and whose List answered nil
C9_Witness ==
    /\ Returned
    /\ \E d \in DirKeys(store.tree) \ {RootKey} :
          /\ store.fault = (<<"list", d>> :> "nil")
          /\ CopiesIn(<<"scan", d>>, exits) = 1
          /\ LeafKeys(store.tree) \ LeavesOutside(d) # {}
          /\ \A j \in LeavesOutside(d) : YieldsCode(j)
    /\ Len(resp) = 1

\* C10: a leaf whose payload has neither the secret field nor a code field
\* yields no record: nothing is sent for it on respChan and the result does
\* not hold it.
C10_NoSecretNoCodeSkipped ==
    \A k \in LeafKeys(store.tree) :
        (/\ ReadResp(store, k).kind = "ok"
         /\ ~HasField(ReadResp(store, k).data, SecretField)
         /\ ~HasField(ReadResp(store, k).data, "code"))
        => /\ CopiesIn(<<"resp", k>>, enq) = 0
           /\ RecordsOf(resp, k) = 0

\* the period the generator works with for a record (token.go:36, 46-48)
EffectivePeriod(t) == IF t.Period # 0 THEN t.Period ELSE 30

\* C11: every delivered record carries the code of the time step of now,
\* or, with the next flag set, of now plus one effective refresh period
\* (the record's period, 30 when it has none).
C11_NextCodeOnePeriodAhead ==
    \A i \in 1..Len(resp) :
        resp[i].Code[2] =
            (IF next THEN Now + EffectivePeriod(resp[i]) ELSE Now) \div EffectivePeriod(resp[i])

\* the part of C11 the code keeps: without the flag the code is that of now,
\* and with the flag a record that has a period field gets the code of now
\* plus that period
C11_NextCodeWithPeriodField ==
    \A i \in 1..Len(resp) :
        (~next \/ resp[i].Period # 0)
        => resp[i].Code[2] =
              (IF next THEN Now + resp[i].Period ELSE Now) \div EffectivePeriod(resp[i])

(***************************************************************************)
(* Secrets of every length                                                 *)
(***************************************************************************)
\* the longest secret of the stores below
MaxSecretLen == 16

\* a secret of n characters, "ABCDEFGH" repeated and cut
SecretOfLen(n) == [i \in 1..n |-> 65 + ((i - 1) % 8)]

\* "r/" -> ["s"]: one leaf, whose secret has n characters
TreeSecret(n) ==
    [list |-> (<<114, 47>> :> << <<115>> >>),
     data |-> (<<114, 47, 115>> :> (SecretField :> SecretOfLen(n)))]

\* a call on a one-leaf store whose secret has any length up to MaxSecretLen
\* and whose calls all succeed
InitPad ==
    /\ store \in {[tree |-> TreeSecret(n), fault |-> <<>>] : n \in 0..MaxSecretLen}
    /\ next \in BOOLEAN
    /\ leafOutcome = [k \in LeafKeys(store.tree) |-> FetchOutcomesOf(store, k, next)]
    /\ run = 1
    /\ firstResult = <<>>
    /\ Setup

SpecPad == InitPad /\ [][Next]_vars

\* the secret field of leaf k as fetchTokenFromKey reads it ("" when absent)
SecretOf(k) ==
    IF HasField(store.tree.data[k], SecretField)
    THEN store.tree.data[k][SecretField] ELSE <<>>

\* p is s followed by 0 to 7 "=" up to a multiple of 8, and s itself when
\* the length of s is a multiple of 8
IsPadded(s, p) ==
    /\ Len(p) % 8 = 0
    /\ Len(p) - Len(s) \in 0..7
    /\ SubSeq(p, 1, Len(s)) = s
    /\ \A i \in (Len(s) + 1)..Len(p) : p[i] = 61
    /\ (Len(s) % 8 = 0 => p = s)

\* the fetch worker of leaf k has read the leaf and generated its code
Generated(k) ==
    /\ BagIn(<<"fetch", k>>, spawned)
    /\ \A w \in BagToSet(workers) : ~(w.kind = "fetch" /\ w.key = k /\ w.pc = "read")
    /\ <<"read", k>> \notin DOMAIN store.fault

\* C12: for a secret of any length the secret handed to the generator has a
\* length that is a multiple of 8 and is the original followed by 0 to 7
\* "=", the original itself when its length is a multiple of 8; the secret
\* inside every delivered code is that padded secret, upper-cased.
C12_PaddedToMultipleOf8 ==
    /\ \A k \in LeafKeys(store.tree) :
          Generated(k) => IsPadded(SecretOf(k), PadSecret(SecretOf(k)))
    /\ \A i \in 1..Len(resp) :
          IsPadded(ToUpper(resp[i].Secret), resp[i].Code[1])

\* a returned record whose 10-character secret went to the generator with
\* 16 characters
C12_Witness ==
    /\ Returned
    /\ \E i \in 1..Len(resp) : Len(resp[i].Secret) = 10 /\ Len(resp[i].Code[1]) = 16

(***************************************************************************)
(* The counter and the work in flight                                      *)
(***************************************************************************)
\* the workers that have run wg.Add(1) for an item they have not yet sent
Sending ==
    BagCardinality([w \in {x \in BagToSet(workers) : x.pc = "send"} |-> workers[w]])

\* items queued in or being sent to the three channels, and the record the
\* dispatcher has appended without having run its wg.Done yet
InFlight ==
    Len(scanPool) + Len(keyPoolChan) + Len(respChan) + Sending
    + (IF pcDisp = "done" THEN 1 ELSE 0)

\* C13: the counter is the number of items in flight that the dispatcher has
\* not yet accounted for plus the number of spawned workers that have not
\* run their final wg.Done; it is never smaller than the work in flight.
C13_CounterIsWorkInFlight ==
    /\ wg = InFlight + BagCardinality(workers)
    /\ wg >= InFlight

\* a worker between its wg.Add(1) and its send while a record is queued and
\* other workers run
C13_Witness ==
    /\ Sending >= 1
    /\ Len(respChan) = 1
    /\ BagCardinality(workers) >= 2
    /\ wg >= 4

\* C14: the counter is never negative.
C14_CounterNeverNegative == wg >= 0

\* the counter back at zero after at least six wg.Done calls, nothing
\* having panicked
C14_Witness ==
    /\ wg = 0
    /\ nDone >= 6
    /\ ~panicked

\* the records of leaf k still queued in respChan
QueuedRecords(k) == Cardinality({i \in 1..Len(respChan) : respChan[i].key = k})

\* C15: a spawned worker runs wg.Done exactly once, when it ends, whatever
\* its exit path, and no other goroutine does so for it; each record is
\* counted by exactly one wg.Add(1) of its fetch worker before the send and
\* by exactly one wg.Done of the dispatcher after the append; when the call
\* returns, the decrements are one more than these increments.
C15_BalancedAddDone ==
    /\ \A x \in BagToSet(spawned) :
          CopiesIn(x, exits) = (IF Gone(x[1], x[2]) THEN 1 ELSE 0)
    /\ BagToSet(exits) \subseteq BagToSet(spawned)
    /\ nAdd = BagCardinality(enq) + Sending
    /\ \A k \in LeafKeys(store.tree) :
          /\ CopiesIn(<<"resp", k>>, enq) <= 1
          /\ RecordsOf(arrived, k) + QueuedRecords(k) = CopiesIn(<<"resp", k>>, enq)
    /\ nDone = BagCardinality(exits) + Len(arrived) - (IF pcDisp = "done" THEN 1 ELSE 0)
    /\ wg = 1 + nAdd - nDone
    /\ Returned => nDone = 1 + nAdd

\* a returned call in which one call failed, a record was delivered and at
\* least six decrements were made
C15_Witness ==
    /\ Returned
    /\ ~NoFault
    /\ Len(resp) >= 1
    /\ nDone >= 6
    /\ nDone = 1 + nAdd

\* the secret of leaf k, padded and upper-cased, decodes as base32
Decodable(k) == ValidBase32(ToUpper(PadSecret(SecretOf(k))))

\* the records the dispatcher holds or has still to receive
RecordsInProgress ==
    {resp[i] : i \in 1..Len(resp)} \cup {respChan[i] : i \in 1..Len(respChan)}
    \cup {w.tok : w \in {x \in BagToSet(workers) : x.kind = "fetch" /\ x.pc \in {"add", "send"}}}

\* C16: every record of the result, in progress or final, comes from a fetch
\* whose Read succeeded and whose code generation returned no error and a
\* non-empty code; a leaf whose generation fails never has a record.
C16_OnlyGeneratedRecords ==
    \A t \in RecordsInProgress :
        /\ t.Code # <<>>
        /\ t.key \in LeafKeys(store.tree)
        /\ <<"read", t.key>> \notin DOMAIN store.fault
        /\ Decodable(t.key)
        /\ t.Code[1] = ToUpper(PadSecret(SecretOf(t.key)))

\* a returned call that fetched a leaf with an undecodable secret and
\* delivered another leaf's record
C16_Witness ==
    /\ Returned
    /\ Len(resp) >= 1
    /\ \E k \in LeafKeys(store.tree) : Gone("fetch", k) /\ Generated(k) /\ ~Decodable(k)

\* leaf k has a field f that strconv.Atoi rejects
ParseFails(k, f) ==
    /\ HasField(store.tree.data[k], f)
    /\ ~Atoi(store.tree.data[k][f]).ok

WaitReturned == pcMain \in {"sort", "defer", "returned"}

\* C18: resp changes only by the dispatcher's append, while the caller has
\* not come back from wg.Wait, and by the caller's sort; once wg.Wait has
\* returned nothing is left that could lead to an append and none happens;
\* after the sort the list is not modified any more.
C18_AppendsBeforeSort ==
    /\ [](WaitReturned => Drained)
    /\ [][/\ resp' # resp =>
               \/ pcDisp = "run" /\ pcDisp' = "done" /\ ~WaitReturned
                  /\ resp' = Append(resp, Head(respChan))
               \/ pcMain = "sort" /\ pcMain' = "defer"
          /\ WaitReturned => arrived' = arrived
          /\ Sorted => resp' = resp]_vars

\* a returned list of at least two records that the sort has reordered
C18_Witness ==
    /\ Returned
    /\ Len(resp) >= 2
    /\ resp # arrived

\* the dispatcher has received from done (token.go:162)
Stopped == pcDisp \in {"close", "exited"}

\* C19: the dispatcher is told to stop only when the counter is back at
\* zero, and once: having left the select loop it never re-enters it; the
\* channels are closed only with the counter at zero; the caller returns only
\* after the dispatcher has taken the stop signal; and once the counter is
\* zero the dispatcher does get the signal, closes the three channels and
\* ends, and the caller returns.
C19_StopsAndClosesAfterZero ==
    /\ [](Stopped => wg = 0)
    /\ [](closed => wg = 0 /\ pcDisp = "exited")
    /\ [](Returned <=> Stopped)
    /\ [][/\ Stopped => Stopped'
          /\ pcDisp = "exited" => pcDisp' = "exited"
          /\ closed => closed']_vars
    /\ (wg = 0) ~> (closed /\ pcDisp = "exited" /\ Returned)

\* the channels closed after a run that started at least five goroutines
C19_Witness ==
    /\ closed
    /\ Returned
    /\ BagCardinality(spawned) >= 5

\* C20: no worker sends on a closed channel: when the channels are closed
\* every spawned worker has run its deferred wg.Done and is gone, so no send
\* is pending or still to come, and the only panic of a run is the one of a
\* nil Read response, never the one of a send on a closed channel.
C20_NoSendOnClosedChannel ==
    /\ closed =>
          /\ workers = EmptyBag
          /\ \A x \in BagToSet(spawned) : CopiesIn(x, exits) = CopiesIn(x, spawned)
          /\ scanPool = <<>> /\ keyPoolChan = <<>> /\ respChan = <<>>
    /\ panicked =>
          /\ ~closed
          /\ \E c \in DOMAIN store.fault : c[1] = "read" /\ store.fault[c] = "nil"

\* the channels closed after at least four sends of workers
C20_Witness ==
    /\ closed
    /\ ~panicked
    /\ BagCardinality(enq) >= 4

====
